---- MODULE Spec2Model ----
(***************************************************************************)
(* A model of resume_manager.py: the fragment store (split / merge), the   *)
(* locale classifier, language discovery, locale resolution and the build  *)
(* orchestrator of ResumeManager.                                          *)
(*                                                                         *)
(* A JSON value is a record with the same five fields whatever its shape:  *)
(*   t  : "S" scalar, "M" mapping (a Python dict), "L" sequence (a list),  *)
(*        "N" Python's None as a return value (absent), "X" a raised       *)
(*        exception                                                        *)
(*   k  : the kind of a scalar ("str", "null", "num") or of an exception   *)
(*   s  : the characters of a string scalar                                *)
(*   ks : the keys of a mapping, in insertion order                        *)
(*   c  : the children of a mapping (c[i] is the value of ks[i]) or of a   *)
(*        sequence                                                         *)
(***************************************************************************)
EXTENDS Integers, Sequences, FiniteSets, TLC

VARIABLES
    pc,      \* the position of the run
    doc,     \* the document tree handed to discovery and resolution
    lang,    \* the target locale of the last resolution
    langs,   \* the locale set of the last discovery or resolution
    out,     \* what the last operation returned, or the exception it raised
    fs,      \* profiles/: for each profile its directory, files and fragment directories
    op,      \* the last operation called and its arguments
    before,  \* profiles/ as it was when the last split was called
    diag,    \* the diagnostic the last operation printed, "" when none
    env,     \* what else is on disk: the theme directory, the profiles/ directory
    dist,    \* dist/: the output directories and the files in them
    run,     \* the build in progress: its argument, the profiles and locales still to do
    render,  \* _generate_pdf for the current (profile, locale) pair
    split    \* split_section followed write by write: how far it has come

vars == <<pc, doc, lang, langs, out, fs, op, before, diag, env, dist, run, render, split>>

treeVars == <<doc, lang, langs>>

storeVars == <<fs, op, before, diag>>

buildVars == <<env, dist, run, render>>

\* no build yet: builds counts the calls of build, arg is the argument of the
\* last one ("" for None), todo the profiles still to build, profile the one being
\* built, locales its locales still to build, built the (profile, locale) pairs
\* built so far in this call, dist0 what dist/ held when build was called
NoRun ==
    [builds |-> 0, arg |-> "", todo |-> {}, profile |-> "", locales |-> <<>>,
     built |-> <<>>, dist0 |-> {}]

\* no pair yet: calls are the renderer invocations for the pair with their
\* outcomes, warning the warning printed for the pair ("" when none), pdf whether
\* the renderer wrote the PDF, done whether _generate_pdf has returned
NoRender ==
    [profile |-> "", language |-> "", filename |-> <<>>, calls |-> <<>>,
     warning |-> "", pdf |-> FALSE, done |-> FALSE]

\* no split_section under way: phase is "idle" before any call, "writing" between
\* mkdir and the last _save_json, "done" once it has returned, "failed" once a
\* write has raised; resume is the dict it loaded, items the list it is writing,
\* next the index of the next fragment
NoSplit ==
    [phase |-> "idle", profile |-> "", section |-> "", resume |-> <<>>,
     items |-> <<>>, next |-> 0]

----------------------------------------------------------------------------
(* JSON values *)

Scalar(kind, chars) == [t |-> "S", k |-> kind, s |-> chars, ks |-> <<>>, c |-> <<>>]

Str(chars) == Scalar("str", chars)

Null == Scalar("null", <<>>)

Mapping(keys, values) == [t |-> "M", k |-> "", s |-> <<>>, ks |-> keys, c |-> values]

Sequence(items) == [t |-> "L", k |-> "", s |-> <<>>, ks |-> <<>>, c |-> items]

None == [t |-> "N", k |-> "", s |-> <<>>, ks |-> <<>>, c |-> <<>>]

Raise(kind) == [t |-> "X", k |-> kind, s |-> <<>>, ks |-> <<>>, c |-> <<>>]

IsDict(obj) == obj.t = "M"

IsList(obj) == obj.t = "L"

IsRaise(obj) == obj.t = "X"

\* isinstance(v, (str, int, float, bool)) or v is None
IsScalar(v) == v.t = "S"

Range(seq) == {seq[i] : i \in 1..Len(seq)}

\* k in obj
HasKey(obj, key) == \E i \in 1..Len(obj.ks) : obj.ks[i] = key

\* obj[k], for a key of obj
Get(obj, key) == obj.c[CHOOSE i \in 1..Len(obj.ks) : obj.ks[i] = key]

\* the first raised exception among the values, in evaluation order
FirstRaise(values) ==
    values[CHOOSE i \in 1..Len(values) :
              /\ IsRaise(values[i])
              /\ \A j \in 1..(i - 1) : ~IsRaise(values[j])]

----------------------------------------------------------------------------
(* LocaleClassifier, LanguageDiscovery, LocaleResolver *)

\* IsPermissive without the test of the keys' length
IsPermissiveAnyKey(obj) == \A i \in 1..Len(obj.c) : IsScalar(obj.c[i])

\* the test of extract_languages: every key a 2-character string, every value a scalar
IsPermissive(obj) ==
    /\ \A i \in 1..Len(obj.ks) : Len(obj.ks[i]) = 2
    /\ \A i \in 1..Len(obj.c) : IsScalar(obj.c[i])

\* IsConservative without the test of the values
IsConservativeAnyValue(obj, available_languages) ==
    \A i \in 1..Len(obj.ks) :
       Len(obj.ks[i]) = 2 /\ obj.ks[i] \in available_languages

\* the test of _resolve_translations: the keys are also in available_languages
IsConservative(obj, available_languages) ==
    /\ \A i \in 1..Len(obj.ks) :
          Len(obj.ks[i]) = 2 /\ obj.ks[i] \in available_languages
    /\ \A i \in 1..Len(obj.c) : IsScalar(obj.c[i])

RECURSIVE extract_languages(_)
extract_languages(obj) ==
    IF IsDict(obj)
    THEN IF IsPermissive(obj)
         THEN Range(obj.ks)
         ELSE UNION {extract_languages(obj.c[i]) : i \in 1..Len(obj.c)}
    ELSE IF IsList(obj)
         THEN UNION {extract_languages(obj.c[i]) : i \in 1..Len(obj.c)}
         ELSE {}

GetAvailableLanguages(resume) ==
    LET languages == extract_languages(resume)
    IN  IF languages # {} THEN languages ELSE {"en"}

\* the value chosen at a mapping that passed the conservative test
ChooseTranslation(obj, language) ==
    IF HasKey(obj, language) THEN Get(obj, language)
    ELSE IF HasKey(obj, "en") THEN Get(obj, "en")
    ELSE IF Len(obj.ks) = 0 THEN Raise("StopIteration")
    ELSE obj.c[1]

RECURSIVE ResolveTranslations(_, _, _)
ResolveTranslations(obj, language, available_languages) ==
    IF IsDict(obj)
    THEN IF IsConservative(obj, available_languages)
         THEN ChooseTranslation(obj, language)
         ELSE LET values == [i \in 1..Len(obj.c) |->
                                ResolveTranslations(obj.c[i], language, available_languages)]
              IN  IF \E i \in 1..Len(values) : IsRaise(values[i])
                  THEN FirstRaise(values)
                  ELSE Mapping(obj.ks, values)
    ELSE IF IsList(obj)
         THEN LET items == [i \in 1..Len(obj.c) |->
                               ResolveTranslations(obj.c[i], language, available_languages)]
              IN  IF \E i \in 1..Len(items) : IsRaise(items[i])
                  THEN FirstRaise(items)
                  ELSE Sequence(items)
         ELSE obj

----------------------------------------------------------------------------
(* The documents, locales and locale sets the tree operations are run on *)

MaxNodes == 4

TreeKeys == {"en", "fr", "es", "name"}

TreeScalars == {Str(<<"a">>), Null}

Targets == {"fr", "de"}

GivenSets == {{"en", "fr"}}

\* the sequences of n distinct keys
RECURSIVE KeySeqs(_)
KeySeqs(n) ==
    IF n = 0 THEN {<<>>}
    ELSE UNION {{Append(ks, key) : key \in TreeKeys \ Range(ks)} : ks \in KeySeqs(n - 1)}

\* the trees of exactly n nodes, and the sequences of w trees of n nodes together
RECURSIVE TreesOfSize(_), Forests(_, _)
TreesOfSize(n) ==
    IF n = 1
    THEN TreeScalars \cup {Mapping(<<>>, <<>>), Sequence(<<>>)}
    ELSE (UNION {{Mapping(ks, f) : ks \in KeySeqs(w), f \in Forests(n - 1, w)} :
                    w \in 1..(n - 1)})
         \cup
         (UNION {{Sequence(f) : f \in Forests(n - 1, w)} : w \in 1..(n - 1)})

Forests(n, w) ==
    IF w = 0
    THEN IF n = 0 THEN {<<>>} ELSE {}
    ELSE UNION {{<<tree>> \o f : tree \in TreesOfSize(first), f \in Forests(n - first, w - 1)} :
                   first \in 1..(n - w + 1)}

\* doc is a tree of exactly n nodes
DocOfSize(n) ==
    IF n = 1
    THEN doc \in TreesOfSize(1)
    ELSE \E w \in 1..(n - 1) : \E f \in Forests(n - 1, w) :
            \/ doc = Sequence(f)
            \/ \E ks \in KeySeqs(w) : doc = Mapping(ks, f)

----------------------------------------------------------------------------
(* SpecTree: discovery and resolution applied to every bounded document *)

\* doc is a sequence or a mapping of two trees of two nodes each: the least
\* documents in which two mappings with entries stand side by side
DocOfPairs ==
    \E first \in TreesOfSize(2), second \in TreesOfSize(2) :
       \/ doc = Sequence(<<first, second>>)
       \/ \E ks \in KeySeqs(2) : doc = Mapping(ks, <<first, second>>)

InitTree ==
    /\ pc = "start"
    /\ \/ \E n \in 1..MaxNodes : DocOfSize(n)
       \/ DocOfPairs
    /\ lang = ""
    /\ langs = {}
    /\ out = None
    /\ fs = <<>>
    /\ op = <<>>
    /\ before = <<>>
    /\ diag = ""
    /\ env = [theme |-> TRUE, profiles_dir |-> TRUE]
    /\ dist = {}
    /\ run = NoRun
    /\ render = NoRender
    /\ split = NoSplit

\* a call of _get_available_languages(doc)
Discover ==
    /\ pc = "start"
    /\ langs' = GetAvailableLanguages(doc)
    /\ pc' = "discovered"
    /\ UNCHANGED <<doc, lang, out, storeVars, buildVars, split>>

\* _build_single's resolution: the locale set is the one discovered from doc
ResolveDiscovered(language) ==
    /\ pc = "discovered"
    /\ lang' = language
    /\ out' = ResolveTranslations(doc, language, langs)
    /\ pc' = "resolved"
    /\ UNCHANGED <<doc, langs, storeVars, buildVars, split>>

\* a direct call of _resolve_translations with a locale set the caller gives
ResolveGiven(language, available_languages) ==
    /\ pc = "start"
    /\ lang' = language
    /\ langs' = available_languages
    /\ out' = ResolveTranslations(doc, language, available_languages)
    /\ pc' = "resolved_given"
    /\ UNCHANGED <<doc, storeVars, buildVars, split>>

NextTree ==
    \/ Discover
    \/ \E language \in Targets : ResolveDiscovered(language)
    \/ \E language \in Targets, available_languages \in GivenSets :
          ResolveGiven(language, available_languages)

SpecTree == InitTree /\ [][NextTree]_vars

----------------------------------------------------------------------------
(* FragmentStore: files and directories *)

FRAGMENTABLE_SECTIONS ==
    <<"work", "education", "skills", "languages", "certificates", "awards",
      "volunteer", "publications", "projects", "interests", "references">>

Fragmentable == Range(FRAGMENTABLE_SECTIONS)

\* the content of a path that names no file
NoFile == [t |-> "-", k |-> "", s |-> <<>>, ks |-> <<>>, c |-> <<>>]

\* the content of a file json.load cannot parse
Malformed == [t |-> "?", k |-> "", s |-> <<>>, ks |-> <<>>, c |-> <<>>]

\* LoadJson taking an empty dict for a file that does not parse
LoadJsonLenient(file) ==
    IF file = NoFile THEN Raise("FileNotFoundError")
    ELSE IF file = Malformed THEN Mapping(<<>>, <<>>)
    ELSE file

\* _load_json: the parsed value of a file. A file written by _save_json holds the
\* text json.dump gives for a value json.load returned, and json.load gives that
\* value back, so a well-formed file is kept as the value it parses to.
LoadJson(file) ==
    IF file = NoFile THEN Raise("FileNotFoundError")
    ELSE IF file = Malformed THEN Raise("JSONDecodeError")
    ELSE file

\* a directory that does not exist
NoDir == [exists |-> FALSE, files |-> {}]

\* a profile directory that does not exist
NoProfile ==
    [exists |-> FALSE, resume |-> NoFile, basics |-> NoFile,
     dirs |-> [section \in Fragmentable |-> NoDir]]

\* del obj[key]
DelKey(obj, key) ==
    LET keep == {i \in 1..Len(obj.ks) : obj.ks[i] # key}
        nth(n) == CHOOSE i \in keep : Cardinality({j \in keep : j < i}) = n - 1
    IN  Mapping([n \in 1..Cardinality(keep) |-> obj.ks[nth(n)]],
                [n \in 1..Cardinality(keep) |-> obj.c[nth(n)]])

\* obj[key] = value: a key of obj keeps its place, a new key goes last
SetKey(obj, key, value) ==
    IF HasKey(obj, key)
    THEN Mapping(obj.ks, [i \in 1..Len(obj.ks) |-> IF obj.ks[i] = key THEN value ELSE obj.c[i]])
    ELSE Mapping(Append(obj.ks, key), Append(obj.c, value))

\* str(i) for i >= 0, as its characters
RECURSIVE Digits(_)
Digits(i) ==
    LET digit == <<"0", "1", "2", "3", "4", "5", "6", "7", "8", "9">>[(i % 10) + 1]
    IN  IF i < 10 THEN <<digit>> ELSE Append(Digits(i \div 10), digit)

\* f"{i}.json"
FragmentName(i) == Digits(i) \o <<".", "j", "s", "o", "n">>

\* ord(ch) for the characters of the file names and of the locale codes
Ord(ch) ==
    CASE ch = "." -> 46
      [] ch = "0" -> 48 [] ch = "1" -> 49 [] ch = "2" -> 50 [] ch = "3" -> 51
      [] ch = "4" -> 52 [] ch = "5" -> 53 [] ch = "6" -> 54 [] ch = "7" -> 55
      [] ch = "8" -> 56 [] ch = "9" -> 57
      [] ch = "a" -> 97 [] ch = "d" -> 100 [] ch = "e" -> 101 [] ch = "f" -> 102
      [] ch = "j" -> 106 [] ch = "n" -> 110 [] ch = "o" -> 111 [] ch = "r" -> 114
      [] ch = "s" -> 115 [] ch = "t" -> 116 [] ch = "x" -> 120

\* StrLess as the order of the indices: a shorter name first
StrLessShorterFirst(a, b) ==
    \/ Len(a) < Len(b)
    \/ /\ Len(a) = Len(b)
       /\ \E n \in 1..Len(a) :
             /\ \A i \in 1..(n - 1) : a[i] = b[i]
             /\ Ord(a[n]) < Ord(b[n])

\* a < b for two Python strings
StrLess(a, b) ==
    \/ Len(a) < Len(b) /\ \A i \in 1..Len(a) : a[i] = b[i]
    \/ \E n \in 1..Len(a) :
          /\ n <= Len(b)
          /\ \A i \in 1..(n - 1) : a[i] = b[i]
          /\ Ord(a[n]) < Ord(b[n])

\* sorted(files, key=lambda x: x.name)
RECURSIVE SortedByName(_)
SortedByName(files) ==
    IF files = {} THEN <<>>
    ELSE LET least == CHOOSE f \in files : \A g \in files \ {f} : StrLess(f.name, g.name)
         IN  <<least>> \o SortedByName(files \ {least})

\* the names glob("*.json") matches
MatchesJson(name) ==
    /\ Len(name) >= 5
    /\ SubSeq(name, Len(name) - 4, Len(name)) = <<".", "j", "s", "o", "n">>

\* section_dir after mkdir(parents=True, exist_ok=True) and the loop of
\* _save_json(section_dir / f"{i}.json", item): a file of that name is replaced,
\* any other file of the directory stays
WriteFragments(dir, items) ==
    LET names == {FragmentName(i - 1) : i \in 1..Len(items)}
    IN  [exists |-> TRUE,
         files |-> {f \in dir.files : f.name \notin names} \cup
                   {[name |-> FragmentName(i - 1), data |-> items[i]] : i \in 1..Len(items)}]

\* the directory profiles/<profile>/<section>; only the fragmentable names have
\* one in the file systems modelled
SectionDir(files, profile, section) ==
    IF section \in Fragmentable THEN files[profile].dirs[section] ELSE NoDir

----------------------------------------------------------------------------
(* FragmentStore: split and merge.  Each operator gives the file system the    *)
(* call leaves (fs), what it returns or raises (out) and what it prints (diag) *)

Outcome(files, result, message) == [fs |-> files, out |-> result, diag |-> message]

\* split_section(profile, section)
SplitSectionCall(files, profile, section) ==
    IF section \notin Fragmentable
    THEN Outcome(files, None, "not fragmentable")
    ELSE LET resume == LoadJson(files[profile].resume)
         IN  IF IsRaise(resume) THEN Outcome(files, resume, "")
             ELSE IF ~HasKey(resume, section)
                  THEN Outcome(files, None, "no section found")
             ELSE IF ~IsList(Get(resume, section))
                  THEN Outcome(files, None, "not an array")
             ELSE LET items == Get(resume, section).c
                      written ==
                          [files[profile] EXCEPT
                              !.dirs[section] = WriteFragments(@, items),
                              !.resume = DelKey(resume, section)]
                  IN  Outcome([files EXCEPT ![profile] = written], None, "split")

\* the loop of split_all_sections over FRAGMENTABLE_SECTIONS, from the i-th name
\* on: state is the profile with the resume dict of the loop in its resume field
RECURSIVE SplitSectionsFrom(_, _)
SplitSectionsFrom(state, i) ==
    IF i > Len(FRAGMENTABLE_SECTIONS) THEN state
    ELSE LET section == FRAGMENTABLE_SECTIONS[i]
         IN  IF HasKey(state.resume, section) /\ IsList(Get(state.resume, section))
             THEN SplitSectionsFrom(
                      [state EXCEPT
                          !.dirs[section] = WriteFragments(@, Get(state.resume, section).c),
                          !.resume = DelKey(state.resume, section)],
                      i + 1)
             ELSE SplitSectionsFrom(state, i + 1)

\* split_all_sections writing basics.json without del resume["basics"]
SplitAllCallKeepingBasics(files, profile) ==
    IF files[profile].resume = NoFile
    THEN Outcome(files, None, "profile not found")
    ELSE LET resume == LoadJson(files[profile].resume)
         IN  IF IsRaise(resume) THEN Outcome(files, resume, "")
             ELSE LET extract == HasKey(resume, "basics") /\ IsDict(Get(resume, "basics"))
                      extracted ==
                          IF extract
                          THEN [files[profile] EXCEPT
                                   !.basics = Get(resume, "basics"),
                                   !.resume = resume]
                          ELSE [files[profile] EXCEPT !.resume = resume]
                  IN  Outcome([files EXCEPT ![profile] = SplitSectionsFrom(extracted, 1)],
                              None, "split")

\* split_all_sections(profile)
SplitAllCall(files, profile) ==
    IF files[profile].resume = NoFile
    THEN Outcome(files, None, "profile not found")
    ELSE LET resume == LoadJson(files[profile].resume)
         IN  IF IsRaise(resume) THEN Outcome(files, resume, "")
             ELSE LET extract == HasKey(resume, "basics") /\ IsDict(Get(resume, "basics"))
                      extracted ==
                          IF extract
                          THEN [files[profile] EXCEPT
                                   !.basics = Get(resume, "basics"),
                                   !.resume = DelKey(resume, "basics")]
                          ELSE [files[profile] EXCEPT !.resume = resume]
                  IN  Outcome([files EXCEPT ![profile] = SplitSectionsFrom(extracted, 1)],
                              None, "split")

\* _merge_section returning the items even when there are none
MergeSectionCallEmptyList(files, profile, section) ==
    LET section_dir == SectionDir(files, profile, section)
    IN  IF ~section_dir.exists THEN None
        ELSE LET found == SortedByName({f \in section_dir.files : MatchesJson(f.name)})
                 items == [i \in 1..Len(found) |-> LoadJson(found[i].data)]
             IN  IF \E i \in 1..Len(items) : IsRaise(items[i]) THEN FirstRaise(items)
                 ELSE Sequence(items)

\* _merge_section(profile, section)
MergeSectionCall(files, profile, section) ==
    LET section_dir == SectionDir(files, profile, section)
    IN  IF ~section_dir.exists THEN None
        ELSE LET found == SortedByName({f \in section_dir.files : MatchesJson(f.name)})
                 items == [i \in 1..Len(found) |-> LoadJson(found[i].data)]
             IN  IF \E i \in 1..Len(items) : IsRaise(items[i]) THEN FirstRaise(items)
                 ELSE IF Len(items) > 0 THEN Sequence(items) ELSE None

\* the loop of _merge_all_sections over FRAGMENTABLE_SECTIONS, from the i-th on
RECURSIVE MergeSectionsFrom(_, _, _, _)
MergeSectionsFrom(files, profile, resume, i) ==
    IF i > Len(FRAGMENTABLE_SECTIONS) THEN resume
    ELSE LET section == FRAGMENTABLE_SECTIONS[i]
             merged_items == MergeSectionCall(files, profile, section)
         IN  IF IsRaise(merged_items) THEN merged_items
             ELSE IF merged_items # None
                  THEN MergeSectionsFrom(files, profile,
                                         SetKey(resume, section, merged_items), i + 1)
                  ELSE MergeSectionsFrom(files, profile, resume, i + 1)

\* _merge_all_sections starting from an empty dict whatever resume.json holds
MergeAllCallFragmentsOnly(files, profile) ==
    LET basics == LoadJson(files[profile].basics)
    IN  IF files[profile].basics = NoFile
        THEN MergeSectionsFrom(files, profile, Mapping(<<>>, <<>>), 1)
        ELSE IF IsRaise(basics) THEN basics
        ELSE MergeSectionsFrom(files, profile,
                               SetKey(Mapping(<<>>, <<>>), "basics", basics), 1)

\* _merge_all_sections(profile)
MergeAllCall(files, profile) ==
    LET loaded == IF files[profile].resume # NoFile
                  THEN LoadJson(files[profile].resume)
                  ELSE Mapping(<<>>, <<>>)
        basics == LoadJson(files[profile].basics)
    IN  IF IsRaise(loaded) THEN loaded
        ELSE IF files[profile].basics = NoFile
             THEN MergeSectionsFrom(files, profile, loaded, 1)
        ELSE IF IsRaise(basics) THEN basics
        ELSE MergeSectionsFrom(files, profile, SetKey(loaded, "basics", basics), 1)

----------------------------------------------------------------------------
(* SpecStore: the split and merge operations called in any order on profiles/ *)

MaxItems == 11

MaxStale == 2

Profiles == {"p", "q"}

\* the (profile, section) arguments of the calls: "q" is a profile that does not
\* exist, "basics" a name that is not fragmentable
SplitArgs == {<<"p", "work">>, <<"p", "basics">>, <<"q", "work">>}

MergeArgs == {<<"p", "work">>, <<"p", "basics">>}

Item(i) == Mapping(<<"id">>, <<Scalar("num", Digits(i))>>)

StaleItem(i) == Mapping(<<"old">>, <<Scalar("num", Digits(i))>>)

\* what resume.json may hold under "work", "basics" and "skills"; None: no such field
WorkFields ==
    {None, Str(<<"x">>), Mapping(<<"en">>, <<Str(<<"a">>)>>)} \cup
    {Sequence([i \in 1..n |-> Item(i - 1)]) : n \in 0..MaxItems}

BasicsFields == {None, Str(<<"a">>), Mapping(<<"name">>, <<Str(<<"a">>)>>)}

SkillsField == Sequence(<<Item(0)>>)

WithField(obj, key, value) == IF value = None THEN obj ELSE SetKey(obj, key, value)

BaseDocs ==
    {WithField(SetKey(WithField(WithField(Mapping(<<>>, <<>>), "basics", basics),
                                "work", work),
                      "meta", Str(<<"m">>)),
               "skills", skills) :
        basics \in BasicsFields, work \in WorkFields, skills \in {None, SkillsField}}

\* the directory holding the fragments 0.json .. (n-1).json of an earlier split
StaleDir(n) ==
    [exists |-> TRUE,
     files |-> {[name |-> FragmentName(i), data |-> StaleItem(i)] : i \in 0..(n - 1)}]

WorkDirs ==
    {NoDir,
     [exists |-> TRUE, files |-> {[name |-> <<"a", ".", "t", "x", "t">>, data |-> Malformed]}],
     [exists |-> TRUE, files |-> {[name |-> FragmentName(0), data |-> Malformed]}]}
    \cup {StaleDir(n) : n \in 0..MaxStale}

BasicsFiles == {NoFile, Malformed, Mapping(<<"name">>, <<Str(<<"b">>)>>)}

InitStore ==
    /\ pc = "store"
    /\ doc = None
    /\ lang = ""
    /\ langs = {}
    /\ out = None
    /\ \E resume \in BaseDocs \cup {NoFile, Malformed}, basics \in BasicsFiles,
          work \in WorkDirs :
       \E skills \in IF resume.t = "M" /\ HasKey(resume, "skills")
                     THEN {NoDir} ELSE {NoDir, StaleDir(1)} :
          fs = [profile \in Profiles |->
                   IF profile = "p"
                   THEN [exists |-> TRUE, resume |-> resume, basics |-> basics,
                         dirs |-> [section \in Fragmentable |->
                                      IF section = "work" THEN work
                                      ELSE IF section = "skills" THEN skills
                                      ELSE NoDir]]
                   ELSE NoProfile]
    /\ op = <<"none">>
    /\ before = [fs |-> fs, op |-> <<"none">>]
    /\ diag = ""
    /\ env = [theme |-> TRUE, profiles_dir |-> TRUE]
    /\ dist = {}
    /\ run = NoRun
    /\ render = NoRender
    /\ split = NoSplit

SplitSection(profile, section) ==
    LET result == SplitSectionCall(fs, profile, section)
    IN  /\ pc = "store"
        /\ op' = <<"split_section", profile, section>>
        /\ before' = [fs |-> fs, op |-> op']
        /\ fs' = result.fs
        /\ out' = result.out
        /\ diag' = result.diag
        /\ UNCHANGED <<pc, treeVars, buildVars, split>>

SplitAll(profile) ==
    LET result == SplitAllCall(fs, profile)
    IN  /\ pc = "store"
        /\ op' = <<"split_all_sections", profile>>
        /\ before' = [fs |-> fs, op |-> op']
        /\ fs' = result.fs
        /\ out' = result.out
        /\ diag' = result.diag
        /\ UNCHANGED <<pc, treeVars, buildVars, split>>

\* MergeSection removing the fragment directory it has read
MergeSectionConsuming(profile, section) ==
    /\ pc = "store"
    /\ op' = <<"_merge_section", profile, section>>
    /\ out' = MergeSectionCall(fs, profile, section)
    /\ diag' = ""
    /\ fs' = IF section \in Fragmentable
             THEN [fs EXCEPT ![profile].dirs[section] = NoDir]
             ELSE fs
    /\ UNCHANGED <<pc, treeVars, before, buildVars, split>>

MergeSection(profile, section) ==
    /\ pc = "store"
    /\ op' = <<"_merge_section", profile, section>>
    /\ out' = MergeSectionCall(fs, profile, section)
    /\ diag' = ""
    /\ UNCHANGED <<pc, treeVars, fs, before, buildVars, split>>

MergeAll(profile) ==
    /\ pc = "store"
    /\ op' = <<"_merge_all_sections", profile>>
    /\ out' = MergeAllCall(fs, profile)
    /\ diag' = ""
    /\ UNCHANGED <<pc, treeVars, fs, before, buildVars, split>>

NextStore ==
    \/ \E args \in SplitArgs : SplitSection(args[1], args[2])
    \/ \E profile \in Profiles : SplitAll(profile)
    \/ \E args \in MergeArgs : MergeSection(args[1], args[2])
    \/ MergeAll("p")

SpecStore == InitStore /\ [][NextStore]_vars

----------------------------------------------------------------------------
(* BuildOrchestrator: the output base name *)

LowerCase ==
    <<"a", "b", "c", "d", "e", "f", "g", "h", "i", "j", "k", "l", "m",
      "n", "o", "p", "q", "r", "s", "t", "u", "v", "w", "x", "y", "z">>

UpperCase ==
    <<"A", "B", "C", "D", "E", "F", "G", "H", "I", "J", "K", "L", "M",
      "N", "O", "P", "Q", "R", "S", "T", "U", "V", "W", "X", "Y", "Z">>

\* str.upper(), on ASCII text
Upper(chars) ==
    [i \in 1..Len(chars) |->
        IF \E n \in 1..Len(LowerCase) : LowerCase[n] = chars[i]
        THEN UpperCase[CHOOSE n \in 1..Len(LowerCase) : LowerCase[n] = chars[i]]
        ELSE chars[i]]

\* str.isspace(), on ASCII text
IsSpace(ch) == ch \in {" ", "\t", "\n", "\r"}

\* str.split(): the maximal runs of characters that are not whitespace
RECURSIVE Split(_)
Split(chars) ==
    IF chars = <<>> THEN <<>>
    ELSE IF IsSpace(Head(chars)) THEN Split(Tail(chars))
    ELSE LET stops == {i \in 1..Len(chars) : IsSpace(chars[i])}
             end == IF stops = {} THEN Len(chars) + 1
                    ELSE CHOOSE i \in stops : \A j \in stops : i <= j
         IN  <<SubSeq(chars, 1, end - 1)>> \o Split(SubSeq(chars, end, Len(chars)))

\* OutputBaseName with name_parts[1] taken for the last name
OutputBaseNameSecondPart(resolved_resume) ==
    LET name == Get(Get(resolved_resume, "basics"), "name")
        name_parts == Split(name.s)
    IN  IF ~IsDict(resolved_resume) \/ ~HasKey(resolved_resume, "basics")
           \/ ~IsDict(Get(resolved_resume, "basics"))
           \/ ~HasKey(Get(resolved_resume, "basics"), "name")
           \/ name.t # "S" \/ name.k # "str" \/ Len(name_parts) < 2
        THEN Raise("AttributeError")
        ELSE Str(Upper(name_parts[2]) \o <<"-">> \o Upper(name_parts[1]))

\* the filename of _build_single: "{LAST}-{FIRST}" from basics.name of the
\* resolved document; .get on a value that is no dict and .split on a value
\* that is no str raise AttributeError
OutputBaseName(resolved_resume) ==
    IF ~IsDict(resolved_resume) THEN Raise("AttributeError")
    ELSE LET basics == IF HasKey(resolved_resume, "basics")
                       THEN Get(resolved_resume, "basics")
                       ELSE Mapping(<<>>, <<>>)
         IN  IF ~IsDict(basics) THEN Raise("AttributeError")
             ELSE LET name == IF HasKey(basics, "name") THEN Get(basics, "name")
                              ELSE Str(<<"R", "e", "s", "u", "m", "e">>)
                  IN  IF name.t # "S" \/ name.k # "str" THEN Raise("AttributeError")
                      ELSE LET name_parts == Split(name.s)
                               last_name == IF Len(name_parts) >= 2
                                            THEN name_parts[Len(name_parts)]
                                            ELSE <<>>
                               first_name == IF Len(name_parts) >= 1
                                             THEN name_parts[1]
                                             ELSE <<"R", "e", "s", "u", "m", "e">>
                           IN  Str(Upper(last_name) \o <<"-">> \o Upper(first_name))

----------------------------------------------------------------------------
(* SpecName: the base name of every bounded resolved document *)

MaxNameLen == 5

NameChars == {"j", "S", " "}

\* the strings of n characters
RECURSIVE Names(_)
Names(n) ==
    IF n = 0 THEN {<<>>}
    ELSE {Append(chars, ch) : chars \in Names(n - 1), ch \in NameChars}

\* what basics.name may be: any short string, the names of the tests, a value
\* that is no string; None: no such field
NameFields ==
    {Str(chars) : chars \in UNION {Names(n) : n \in 0..MaxNameLen}} \cup
    {Str(<<"J", "o", "h", "n", " ", "S", "m", "i", "t", "h">>),
     Str(<<"M", "a", "d", "o", "n", "n", "a">>),
     Str(<<"\t", "j", "\n", "m", " ", "s", " ">>),
     Null, None}

InitName ==
    /\ pc = "named"
    /\ \E name \in NameFields, other \in {None, Str(<<"m">>)} :
          \/ doc = WithField(WithField(Mapping(<<>>, <<>>), "basics",
                                       WithField(WithField(Mapping(<<>>, <<>>),
                                                           "label", other),
                                                 "name", name)),
                             "meta", Str(<<"m">>))
          \/ doc = WithField(Mapping(<<"meta">>, <<Str(<<"m">>)>>), "basics", other)
    /\ lang = ""
    /\ langs = {}
    /\ out = None
    /\ fs = <<>>
    /\ op = <<>>
    /\ before = <<>>
    /\ diag = ""
    /\ env = [theme |-> TRUE, profiles_dir |-> TRUE]
    /\ dist = {}
    /\ run = NoRun
    /\ render = NoRender
    /\ split = NoSplit

\* the name derivation of _build_single for the resolved document doc
DeriveName ==
    /\ pc = "named"
    /\ out' = OutputBaseName(doc)
    /\ pc' = "derived"
    /\ UNCHANGED <<treeVars, storeVars, buildVars, split>>

NextName == DeriveName

SpecName == InitName /\ [][NextName]_vars

----------------------------------------------------------------------------
(* BuildOrchestrator: build, _build_profile, _build_single, _generate_pdf *)

\* the characters of a locale code
CodeChars(code) ==
    CASE code = "de" -> <<"d", "e">>
      [] code = "en" -> <<"e", "n">>
      [] code = "es" -> <<"e", "s">>
      [] code = "fr" -> <<"f", "r">>

\* SortedCodes in descending order
RECURSIVE SortedCodesDescending(_)
SortedCodesDescending(codes) ==
    IF codes = {} THEN <<>>
    ELSE LET greatest == CHOOSE a \in codes :
                             \A b \in codes \ {a} : StrLess(CodeChars(b), CodeChars(a))
         IN  <<greatest>> \o SortedCodesDescending(codes \ {greatest})

\* sorted(available_languages)
RECURSIVE SortedCodes(_)
SortedCodes(codes) ==
    IF codes = {} THEN <<>>
    ELSE LET least == CHOOSE a \in codes :
                          \A b \in codes \ {a} : StrLess(CodeChars(a), CodeChars(b))
         IN  <<least>> \o SortedCodes(codes \ {least})

\* the directory dist/<profile>/<language>
OutDir(profile, language) ==
    [profile |-> profile, language |-> language, filename |-> <<>>, ext |-> "/",
     data |-> None]

\* the file dist/<profile>/<language>/<filename><ext>
OutFile(profile, language, filename, ext, data) ==
    [profile |-> profile, language |-> language, filename |-> filename, ext |-> ext,
     data |-> data]

\* writing a file: a file of that path is replaced, any other entry stays
SaveOut(entries, file) ==
    {f \in entries : ~(/\ f.profile = file.profile
                       /\ f.language = file.language
                       /\ f.filename = file.filename
                       /\ f.ext = file.ext)} \cup {file}

\* the commands _generate_pdf tries, in order
RendererCommands == <<"resume", "npx">>

\* what subprocess.run may do: return with status 0 (the renderer wrote the PDF),
\* return with another status, raise FileNotFoundError (no such executable),
\* raise TimeoutExpired, raise anything else
RendererResults == {"ok", "nonzero", "missing", "timeout", "error"}

\* the number of calls of build in a run
MaxBuilds == 2

\* build(profile); "" stands for None
Build(profile) ==
    LET found == IF profile # "" THEN fs[profile].exists ELSE env.profiles_dir
        selected == IF profile # "" THEN {profile}
                    ELSE {name \in DOMAIN fs : fs[name].exists}
    IN  /\ pc = "store"
        /\ run.builds < MaxBuilds
        /\ op' = <<"build", profile>>
        /\ run' = [builds |-> run.builds + 1, arg |-> profile,
                   todo |-> IF found THEN selected ELSE {},
                   profile |-> "", locales |-> <<>>, built |-> <<>>, dist0 |-> dist]
        /\ render' = NoRender
        /\ out' = None
        /\ diag' = IF found THEN ""
                   ELSE IF profile # "" THEN "Profile not found"
                   ELSE "No profiles directory found"
        /\ pc' = IF found THEN "profiles" ELSE "store"
        /\ UNCHANGED <<treeVars, fs, before, env, dist, split>>

\* the loop of build over the profile directories, in the order iterdir gives
\* them, and the head of _build_profile: assemble, discover, sort
BuildProfile ==
    /\ pc = "profiles"
    /\ IF run.todo = {}
       THEN /\ pc' = "store"
            /\ UNCHANGED <<doc, langs, out, run>>
       ELSE \E profile \in run.todo :
               LET resume == MergeAllCall(fs, profile)
               IN  IF IsRaise(resume)
                   THEN /\ pc' = "raised"
                        /\ out' = resume
                        /\ run' = [run EXCEPT !.todo = @ \ {profile}, !.profile = profile]
                        /\ UNCHANGED <<doc, langs>>
                   ELSE /\ pc' = "single"
                        /\ doc' = resume
                        /\ langs' = GetAvailableLanguages(resume)
                        /\ out' = None
                        /\ run' = [run EXCEPT
                                      !.todo = @ \ {profile},
                                      !.profile = profile,
                                      !.locales = SortedCodes(GetAvailableLanguages(resume))]
    /\ UNCHANGED <<lang, storeVars, env, dist, render, split>>

\* the loop of _build_profile and _build_single up to the renderer: resolve,
\* derive the name, make the directory, and in _generate_pdf save the JSON and
\* look for the theme
BuildSingle ==
    /\ pc = "single"
    /\ IF run.locales = <<>>
       THEN /\ pc' = "profiles"
            /\ UNCHANGED <<lang, out, diag, dist, run, render>>
       ELSE LET language == Head(run.locales)
                available_languages == GetAvailableLanguages(doc)
                resolved_resume == ResolveTranslations(doc, language, available_languages)
                filename == OutputBaseName(resolved_resume)
                raised == IF IsRaise(resolved_resume) THEN resolved_resume ELSE filename
            IN  /\ lang' = language
                /\ run' = [run EXCEPT
                              !.locales = Tail(@),
                              !.built = Append(@, <<run.profile, language>>)]
                /\ IF IsRaise(raised)
                   THEN /\ pc' = "raised"
                        /\ out' = raised
                        /\ UNCHANGED <<diag, dist, render>>
                   ELSE /\ out' = resolved_resume
                        /\ dist' = SaveOut(dist \cup {OutDir(run.profile, language)},
                                           OutFile(run.profile, language, filename.s,
                                                   ".json", resolved_resume))
                        /\ render' = [profile |-> run.profile, language |-> language,
                                      filename |-> filename.s, calls |-> <<>>,
                                      warning |-> IF env.theme THEN "" ELSE "Theme not found",
                                      pdf |-> FALSE, done |-> ~env.theme]
                        /\ diag' = IF env.theme THEN diag ELSE "Built"
                        /\ pc' = IF env.theme THEN "render" ELSE "single"
    /\ UNCHANGED <<doc, langs, fs, op, before, env, split>>

\* one turn of the loop of _generate_pdf over the commands: subprocess.run and
\* what follows its result; when the loop is left, _build_single prints "Built"
Render(result) ==
    LET cmd == RendererCommands[Len(render.calls) + 1]
        calls == Append(render.calls, [cmd |-> cmd, result |-> result])
        returns == \/ result \in {"ok", "timeout", "error"}
                   \/ Len(calls) = Len(RendererCommands)
    IN  /\ pc = "render"
        /\ render' = [render EXCEPT
                         !.calls = calls,
                         !.warning = IF result = "timeout" THEN "PDF generation timed out"
                                     ELSE IF result = "error" THEN "PDF generation error"
                                     ELSE @,
                         !.pdf = (result = "ok"),
                         !.done = returns]
        /\ dist' = IF result = "ok"
                   THEN SaveOut(dist, OutFile(render.profile, render.language,
                                              render.filename, ".pdf", out))
                   ELSE dist
        /\ diag' = IF returns THEN "Built" ELSE diag
        /\ pc' = IF returns THEN "single" ELSE "render"
        /\ UNCHANGED <<treeVars, out, fs, op, before, env, run, split>>

----------------------------------------------------------------------------
(* SpecBuild: builds of the profiles, with splits between them *)

BuildArgs == {"", "p", "q"}

NameEnFr ==
    Mapping(<<"en", "fr">>, <<Str(<<"j", " ", "s">>), Str(<<"s", " ", "m", " ", "j">>)>>)

\* a profile directory with the given files
ProfileOf(resume, basics, work) ==
    [exists |-> TRUE, resume |-> resume, basics |-> basics,
     dirs |-> [section \in Fragmentable |-> IF section = "work" THEN work ELSE NoDir]]

OneFragment(item) == [exists |-> TRUE, files |-> {[name |-> FragmentName(0), data |-> item]}]

\* never split, translated name
WholeProfile ==
    ProfileOf(Mapping(<<"basics", "meta">>,
                      <<Mapping(<<"name">>, <<NameEnFr>>), Str(<<"m">>)>>),
              NoFile, NoDir)

\* split: basics.json and a fragment directory
SplitProfile ==
    ProfileOf(Mapping(<<"meta">>, <<Str(<<"m">>)>>), Mapping(<<"name">>, <<NameEnFr>>),
              OneFragment(Mapping(<<"position">>,
                                  <<Mapping(<<"en", "es">>, <<Str(<<"a">>), Str(<<"b">>)>>)>>)))

\* a section inline and as fragments of an earlier split, in other locales
BothProfile ==
    ProfileOf(Mapping(<<"basics", "work">>,
                      <<Mapping(<<"name">>, <<Str(<<"j", " ", "s">>)>>),
                        Sequence(<<Mapping(<<"en", "es">>, <<Str(<<"a">>), Str(<<"b">>)>>)>>)>>),
              NoFile,
              OneFragment(Mapping(<<"de", "fr">>, <<Str(<<"a">>), Str(<<"b">>)>>)))

\* a profile directory with nothing in it
EmptyProfile == ProfileOf(NoFile, NoFile, NoDir)

\* fragments only: no base document, no basics.json
FragmentsProfile == ProfileOf(NoFile, NoFile, OneFragment(Item(0)))

MalformedProfile == ProfileOf(Malformed, NoFile, NoDir)

\* a basics.json, a fragment file that json.load cannot parse
MalformedBasicsProfile ==
    ProfileOf(Mapping(<<"meta">>, <<Str(<<"m">>)>>), Malformed, NoDir)

MalformedFragmentProfile ==
    ProfileOf(Mapping(<<"basics">>, <<Mapping(<<"name">>, <<NameEnFr>>)>>), NoFile,
              OneFragment(Malformed))

\* no translation anywhere
PlainProfile ==
    ProfileOf(Mapping(<<"basics">>, <<Mapping(<<"name">>, <<Str(<<"m">>)>>)>>), NoFile, NoDir)

\* a name that is no string in one locale
NullNameProfile ==
    ProfileOf(Mapping(<<"basics">>,
                      <<Mapping(<<"name">>,
                                <<Mapping(<<"en", "fr">>, <<Str(<<"j", " ", "s">>), Null>>)>>)>>),
              NoFile, NoDir)

InitBuild ==
    /\ pc = "store"
    /\ doc = None
    /\ lang = ""
    /\ langs = {}
    /\ out = None
    /\ \E p \in {NoProfile, WholeProfile, SplitProfile, BothProfile, EmptyProfile,
                 FragmentsProfile, MalformedProfile, MalformedBasicsProfile,
                 MalformedFragmentProfile, NullNameProfile},
          q \in {NoProfile, PlainProfile, EmptyProfile} :
          /\ fs = [profile \in Profiles |-> IF profile = "p" THEN p ELSE q]
          /\ \E theme \in BOOLEAN, profiles_dir \in BOOLEAN :
                /\ (p.exists \/ q.exists) => profiles_dir
                /\ env = [theme |-> theme, profiles_dir |-> profiles_dir]
    /\ op = <<"none">>
    /\ before = [fs |-> fs, op |-> <<"none">>]
    /\ diag = ""
    /\ dist = {}
    /\ run = NoRun
    /\ render = NoRender
    /\ split = NoSplit

NextBuild ==
    \/ \E profile \in BuildArgs : Build(profile)
    \/ BuildProfile
    \/ BuildSingle
    \/ \E result \in RendererResults : Render(result)
    \/ SplitAll("p")
    \/ MergeSection("p", "work")
    \/ MergeAll("p")

SpecBuild == InitBuild /\ [][NextBuild]_vars

----------------------------------------------------------------------------
(* SpecSteps: split_section write by write, with merges between the writes *)

\* _save_json(section_dir / f"{i}.json", item)
WriteFragment(dir, i, item) ==
    [exists |-> TRUE,
     files |-> {f \in dir.files : f.name # FragmentName(i)} \cup
               {[name |-> FragmentName(i), data |-> item]}]

\* SplitBegin rewriting resume.json before the fragments are written
SplitBeginRewritingFirst(profile, section) ==
    LET resume == LoadJson(fs[profile].resume)
        refused == SplitSectionCall(fs, profile, section)
        starts == refused.diag = "split"
    IN  /\ pc = "store"
        /\ split.phase # "writing"
        /\ op' = <<"split_section", profile, section>>
        /\ before' = [fs |-> fs, op |-> op']
        /\ out' = refused.out
        /\ diag' = IF starts THEN "" ELSE refused.diag
        /\ fs' = IF starts
                 THEN [fs EXCEPT ![profile].dirs[section].exists = TRUE,
                                 ![profile].resume = DelKey(resume, section)]
                 ELSE fs
        /\ split' = IF starts
                    THEN [phase |-> "writing", profile |-> profile, section |-> section,
                          resume |-> resume, items |-> Get(resume, section).c, next |-> 0]
                    ELSE split
        /\ UNCHANGED <<pc, treeVars, buildVars>>

\* split_section up to section_dir.mkdir: the tests of the section name and of
\* the loaded document, which end the call when they fail, then the directory
SplitBegin(profile, section) ==
    LET resume == LoadJson(fs[profile].resume)
        refused == SplitSectionCall(fs, profile, section)
        starts == refused.diag = "split"
    IN  /\ pc = "store"
        /\ split.phase # "writing"
        /\ op' = <<"split_section", profile, section>>
        /\ before' = [fs |-> fs, op |-> op']
        /\ out' = refused.out
        /\ diag' = IF starts THEN "" ELSE refused.diag
        /\ fs' = IF starts THEN [fs EXCEPT ![profile].dirs[section].exists = TRUE] ELSE fs
        /\ split' = IF starts
                    THEN [phase |-> "writing", profile |-> profile, section |-> section,
                          resume |-> resume, items |-> Get(resume, section).c, next |-> 0]
                    ELSE split
        /\ UNCHANGED <<pc, treeVars, buildVars>>

\* one turn of the loop over enumerate(items)
SplitWrite ==
    /\ pc = "store"
    /\ split.phase = "writing"
    /\ split.next < Len(split.items)
    /\ fs' = [fs EXCEPT ![split.profile].dirs[split.section] =
                            WriteFragment(@, split.next, split.items[split.next + 1])]
    /\ split' = [split EXCEPT !.next = @ + 1]
    /\ op' = <<"split_section", split.profile, split.section>>
    /\ UNCHANGED <<pc, treeVars, out, before, diag, buildVars>>

\* after the loop: del resume[section], _save_json(resume_path, resume), print
SplitFinish ==
    /\ pc = "store"
    /\ split.phase = "writing"
    /\ split.next = Len(split.items)
    /\ fs' = [fs EXCEPT ![split.profile].resume = DelKey(split.resume, split.section)]
    /\ split' = [split EXCEPT !.phase = "done"]
    /\ op' = <<"split_section", split.profile, split.section>>
    /\ out' = None
    /\ diag' = "split"
    /\ UNCHANGED <<pc, treeVars, before, buildVars>>

\* a _save_json of split_section raises (open or json.dump failing): nothing
\* catches it, the call ends there and what has been written stays
SplitFail ==
    /\ pc = "store"
    /\ split.phase = "writing"
    /\ split' = [split EXCEPT !.phase = "failed"]
    /\ op' = <<"split_section", split.profile, split.section>>
    /\ out' = Raise("OSError")
    /\ UNCHANGED <<pc, treeVars, fs, before, diag, buildVars>>

\* resume.json with "work" an array of n elements, and something beside it
StepDocs ==
    {Mapping(<<"work", "meta">>, <<Sequence([i \in 1..n |-> Item(i - 1)]), Str(<<"m">>)>>) :
        n \in 0..MaxItems}

InitSteps ==
    /\ pc = "store"
    /\ doc = None
    /\ lang = ""
    /\ langs = {}
    /\ out = None
    /\ \E resume \in StepDocs, work \in {NoDir} \cup {StaleDir(n) : n \in 0..MaxStale} :
          fs = [profile \in Profiles |->
                   IF profile = "p" THEN ProfileOf(resume, NoFile, work) ELSE NoProfile]
    /\ op = <<"none">>
    /\ before = [fs |-> fs, op |-> <<"none">>]
    /\ diag = ""
    /\ env = [theme |-> TRUE, profiles_dir |-> TRUE]
    /\ dist = {}
    /\ run = NoRun
    /\ render = NoRender
    /\ split = NoSplit

\* a merge is one step: it runs between two writes of the split
NextSteps ==
    \/ SplitBegin("p", "work")
    \/ SplitWrite
    \/ SplitFinish
    \/ SplitFail
    \/ MergeAll("p")

SpecSteps == InitSteps /\ [][NextSteps]_vars

----------------------------------------------------------------------------
(* What the claims speak of, stated without the operators above *)

\* the positions of a tree: the sequences of child indices leading to a node
RECURSIVE Paths(_)
Paths(tree) ==
    {<<>>} \cup UNION {{<<i>> \o p : p \in Paths(tree.c[i])} : i \in 1..Len(tree.c)}

RECURSIVE NodeAt(_, _)
NodeAt(tree, p) == IF p = <<>> THEN tree ELSE NodeAt(tree.c[Head(p)], Tail(p))

\* a translation map: a Mapping, every key of two characters, every value a Scalar
IsTranslationMap(node) ==
    /\ node.t = "M"
    /\ \A key \in Range(node.ks) : Len(key) = 2
    /\ \A value \in Range(node.c) : value.t = "S"

\* a translation map all of whose keys are in the locale set
IsTranslationMapIn(node, locales) ==
    IsTranslationMap(node) /\ Range(node.ks) \subseteq locales

\* result is what the claim gives for a translation map: the value at the target
\* locale, else the value at "en", else the value of the first key
IsClaimedChoice(node, language, result) ==
    IF \E i \in 1..Len(node.ks) : node.ks[i] = language
    THEN \E i \in 1..Len(node.ks) : node.ks[i] = language /\ result = node.c[i]
    ELSE IF \E i \in 1..Len(node.ks) : node.ks[i] = "en"
         THEN \E i \in 1..Len(node.ks) : node.ks[i] = "en" /\ result = node.c[i]
         ELSE Len(node.ks) >= 1 /\ result = node.c[1]

Resolved == pc \in {"resolved", "resolved_given"}

\* C4: every Mapping node of the document, at any depth, that satisfies the
\* conservative predicate for the given locale set is resolved to its value at
\* the target locale, else at "en", else at its first key.
C4_EveryTranslationMapResolved ==
    Resolved =>
        \A p \in Paths(doc) :
            IsTranslationMapIn(NodeAt(doc, p), langs) =>
                /\ out.t # "X"
                /\ p \in Paths(out)
                /\ IsClaimedChoice(NodeAt(doc, p), lang, NodeAt(out, p))

\* What holds of the code for C4: the same, for the documents whose resolution
\* returns (no Mapping without keys in them).
C4_ResolvedWhenReturned ==
    (Resolved /\ out.t # "X") =>
        \A p \in Paths(doc) :
            IsTranslationMapIn(NodeAt(doc, p), langs) =>
                /\ p \in Paths(out)
                /\ IsClaimedChoice(NodeAt(doc, p), lang, NodeAt(out, p))

\* the three cases of C4 happen below a mapping and a sequence
C4_Witness ==
    /\ pc = "resolved_given"
    /\ out.t # "X"
    /\ \E p \in Paths(doc) :
          /\ Len(p) >= 1
          /\ IsTranslationMapIn(NodeAt(doc, p), langs)
          /\ Len(NodeAt(doc, p).ks) = 2
          /\ lang \notin Range(NodeAt(doc, p).ks)

\* C5 as claimed: the document resolved with the locale set discovered from it
\* contains no translation-map node.
C5_NoTranslationMapLeft ==
    (pc = "resolved" /\ out.t # "X") =>
        \A p \in Paths(out) : ~IsTranslationMap(NodeAt(out, p))

\* C5 as amended: every translation map of the document is replaced by one of its
\* own Scalar values, and a translation map is left in the resolved document only
\* where the document had a Mapping with the same keys that was not a translation
\* map (a value of it was a Mapping or a Sequence, resolved to a Scalar).
C5_TranslationMapsOfDocCollapsed ==
    (pc = "resolved" /\ out.t # "X") =>
        /\ \A p \in Paths(doc) :
              IsTranslationMap(NodeAt(doc, p)) =>
                  /\ p \in Paths(out)
                  /\ NodeAt(out, p).t = "S"
                  /\ NodeAt(out, p) \in Range(NodeAt(doc, p).c)
        /\ \A p \in Paths(out) :
              IsTranslationMap(NodeAt(out, p)) =>
                  /\ p \in Paths(doc)
                  /\ NodeAt(doc, p).t = "M"
                  /\ NodeAt(doc, p).ks = NodeAt(out, p).ks
                  /\ \E value \in Range(NodeAt(doc, p).c) : value.t \in {"M", "L"}

\* a document with translation maps is resolved, and a translation map is left
C5_Witness ==
    /\ pc = "resolved"
    /\ out.t # "X"
    /\ \E p \in Paths(doc) :
          IsTranslationMap(NodeAt(doc, p)) /\ Len(NodeAt(doc, p).ks) >= 1
    /\ \E q \in Paths(out) : IsTranslationMap(NodeAt(out, q))

\* the position p of doc holds a translation map with entries
IsLocaleData(p) ==
    IsTranslationMap(NodeAt(doc, p)) /\ Len(NodeAt(doc, p).ks) >= 1

\* a mapping shaped like a translation map whose keys are in no other translation
\* map of the document, which holds other translation maps
IsCoincidental(p) ==
    /\ IsLocaleData(p)
    /\ \E q \in Paths(doc) : q # p /\ IsLocaleData(q)
    /\ \A q \in Paths(doc) :
          (q # p /\ IsLocaleData(q)) =>
              Range(NodeAt(doc, q).ks) \cap Range(NodeAt(doc, p).ks) = {}

\* C6: in a build (the locale set is the discovered one) a coincidental mapping
\* is not collapsed: the resolved document holds a Mapping with all its keys there.
C6_CoincidentalMappingKept ==
    (pc = "resolved" /\ out.t # "X") =>
        \A p \in Paths(doc) :
            IsCoincidental(p) =>
                /\ p \in Paths(out)
                /\ NodeAt(out, p).t = "M"
                /\ NodeAt(out, p).ks = NodeAt(doc, p).ks

\* the translation maps of doc reachable without passing through one
ReachableTranslationMaps ==
    {p \in Paths(doc) :
        /\ IsTranslationMap(NodeAt(doc, p))
        /\ \A n \in 0..(Len(p) - 1) : ~IsTranslationMap(NodeAt(doc, SubSeq(p, 1, n)))}

UnionOfKeySets == UNION {Range(NodeAt(doc, p).ks) : p \in ReachableTranslationMaps}

\* C7: discovery returns the union of the key sets of the reachable translation
\* maps, {"en"} when that union is empty, and so never the empty set.
C7_DiscoveryIsUnionOfKeySets ==
    (pc \in {"discovered", "resolved"}) =>
        /\ langs = (IF UnionOfKeySets = {} THEN {"en"} ELSE UnionOfKeySets)
        /\ langs # {}

\* two translation maps with different keys below a mapping that has a key of
\* another length
C7_Witness ==
    /\ pc = "discovered"
    /\ doc.t = "M"
    /\ \E key \in Range(doc.ks) : Len(key) # 2
    /\ \E p \in ReachableTranslationMaps, q \in ReachableTranslationMaps :
          /\ NodeAt(doc, p).ks # <<>>
          /\ NodeAt(doc, q).ks # <<>>
          /\ Range(NodeAt(doc, p).ks) \cap Range(NodeAt(doc, q).ks) = {}
    /\ Cardinality(langs) = 2

----------------------------------------------------------------------------
(* The claims about split and merge *)

\* a and b differ and a comes first in the order of the characters' codes: at
\* the first position where they differ, or because a ends there
NameBefore(a, b) ==
    LET same(n) == \A i \in 1..n : a[i] = b[i]
    IN  \E n \in 0..Len(a) :
           /\ n <= Len(b)
           /\ same(n)
           /\ IF n = Len(a) THEN Len(b) > n
              ELSE Len(b) > n /\ Ord(a[n + 1]) < Ord(b[n + 1])

\* the place of the element of index i among n elements ordered by the names
\* "0.json" .. "n-1.json"
PlaceByName(i, n) ==
    1 + Cardinality({j \in 0..(n - 1) : NameBefore(FragmentName(j), FragmentName(i))})

\* result is the sequence of these elements ordered by their file names
IsInNameOrder(result, elements) ==
    /\ result.t = "L"
    /\ Len(result.c) = Len(elements)
    /\ \A i \in 0..(Len(elements) - 1) :
          result.c[PlaceByName(i, Len(elements))] = elements[i + 1]

\* the last call is _merge_section(p, work), the last split was
\* split_section(p, work), called when resume.json held "work" as an array and
\* profiles/p/work did not exist
SplitThenMerge ==
    /\ pc = "store"
    /\ op = <<"_merge_section", "p", "work">>
    /\ before.op = <<"split_section", "p", "work">>
    /\ before.fs["p"].resume.t = "M"
    /\ \E i \in 1..Len(before.fs["p"].resume.ks) :
          before.fs["p"].resume.ks[i] = "work" /\ before.fs["p"].resume.c[i].t = "L"
    /\ ~before.fs["p"].dirs["work"].exists

\* the elements resume.json held under "work" when the last split was called
ElementsBefore ==
    before.fs["p"].resume.c[CHOOSE i \in 1..Len(before.fs["p"].resume.ks) :
                                before.fs["p"].resume.ks[i] = "work"].c

NeverSplit ==
    /\ pc = "store"
    /\ fs["p"].resume.t = "M"
    /\ fs["p"].basics.t = "-"
    /\ \A section \in Range(FRAGMENTABLE_SECTIONS) : ~fs["p"].dirs[section].exists

\* C2: mergeAll on a never-split profile returns the base document.
C2_MergeAllOfNeverSplit ==
    (NeverSplit /\ op = <<"_merge_all_sections", "p">>) => out = fs["p"].resume

\* a never-split profile with several elements under "work" is merged
C2_Witness ==
    /\ NeverSplit
    /\ op = <<"_merge_all_sections", "p">>
    /\ \E i \in 1..Len(fs["p"].resume.ks) :
          fs["p"].resume.ks[i] = "work" /\ fs["p"].resume.c[i].t = "L"
                                         /\ Len(fs["p"].resume.c[i].c) >= 2
    /\ out.t = "M"

\* the .json files of the fragment directory of a section of p
JsonFiles(section) ==
    {f \in fs["p"].dirs[section].files :
        /\ Len(f.name) >= 5
        /\ \A i \in 1..5 : f.name[Len(f.name) - 5 + i] = <<".", "j", "s", "o", "n">>[i]}

\* the value of the field key of a document, for a key it has
FieldOf(document, key) ==
    document.c[CHOOSE i \in 1..Len(document.ks) : document.ks[i] = key]

C3_WitnessEmptyDirectory ==
    /\ pc = "store"
    /\ op = <<"_merge_all_sections", "p">>
    /\ out.t = "M"
    /\ fs["p"].dirs["work"].exists
    /\ JsonFiles("work") = {}
    /\ "work" \in Range(out.ks)

----------------------------------------------------------------------------
(* The claims about the build *)

\* basics.name of a document as its characters, <<>> when the document has no
\* basics or no name
NameText(document) ==
    IF \E i \in 1..Len(document.ks) :
           document.ks[i] = "basics" /\ "name" \in Range(document.c[i].ks)
    THEN FieldOf(FieldOf(document, "basics"), "name").s
    ELSE <<>>

Blank == {" ", "\t", "\n"}

\* the positions where a token of a text starts, and where one ends
TokenStarts(text) ==
    {i \in 1..Len(text) : text[i] \notin Blank /\ (i = 1 \/ text[i - 1] \in Blank)}

TokenEnds(text) ==
    {i \in 1..Len(text) : text[i] \notin Blank /\ (i = Len(text) \/ text[i + 1] \in Blank)}

Least(set) == CHOOSE i \in set : \A j \in set : i <= j

Greatest(set) == CHOOSE i \in set : \A j \in set : i >= j

FirstToken(text) == SubSeq(text, Least(TokenStarts(text)), Least(TokenEnds(text)))

LastToken(text) == SubSeq(text, Greatest(TokenStarts(text)), Greatest(TokenEnds(text)))

\* filename is the base name the claim gives for the text of a name
IsClaimedBaseName(filename, text) ==
    /\ Cardinality(TokenStarts(text)) >= 2 =>
          filename = Upper(LastToken(text)) \o <<"-">> \o Upper(FirstToken(text))
    /\ Cardinality(TokenStarts(text)) = 1 => filename = <<"-">> \o Upper(FirstToken(text))
    /\ Cardinality(TokenStarts(text)) = 0 => filename = <<"-", "R", "E", "S", "U", "M", "E">>

\* the document has no basics.name, or one that is a string
NameIsTextOrMissing(document) ==
    /\ document.t = "M"
    /\ "basics" \in Range(document.ks) => FieldOf(document, "basics").t = "M"
    /\ \A i \in 1..Len(document.ks) :
          (document.ks[i] = "basics" /\ "name" \in Range(document.c[i].ks)) =>
              /\ FieldOf(document.c[i], "name").t = "S"
              /\ FieldOf(document.c[i], "name").k = "str"

\* C8: the base name is UPPER(last token) "-" UPPER(first token) for two tokens
\* or more, "-" UPPER(token) for one token, "-RESUME" for a missing or empty
\* name or missing basics; "John Smith" gives SMITH-JOHN, "Madonna" -MADONNA.
C8_OutputBaseName ==
    (pc = "derived" /\ NameIsTextOrMissing(doc)) =>
        /\ out.t = "S"
        /\ IsClaimedBaseName(out.s, NameText(doc))
        /\ NameText(doc) = <<"J", "o", "h", "n", " ", "S", "m", "i", "t", "h">> =>
              out.s = <<"S", "M", "I", "T", "H", "-", "J", "O", "H", "N">>
        /\ NameText(doc) = <<"M", "a", "d", "o", "n", "n", "a">> =>
              out.s = <<"-", "M", "A", "D", "O", "N", "N", "A">>

\* a name of three tokens: the middle one is ignored
C8_Witness ==
    /\ pc = "derived"
    /\ NameIsTextOrMissing(doc)
    /\ Cardinality(TokenStarts(NameText(doc))) = 3
    /\ out.s = <<"S", "-", "J">>

\* data is the document resolved to a locale: every translation map replaced by
\* its value for the locale, everything else kept
RECURSIVE IsResolutionOf(_, _, _)
IsResolutionOf(data, node, locale) ==
    IF IsTranslationMap(node) THEN IsClaimedChoice(node, locale, data)
    ELSE IF node.t \in {"M", "L"}
         THEN /\ data.t = node.t
              /\ data.ks = node.ks
              /\ Len(data.c) = Len(node.c)
              /\ \A i \in 1..Len(node.c) : IsResolutionOf(data.c[i], node.c[i], locale)
         ELSE data = node

\* the locale codes of the profiles, in ascending order
AscendingCodes == <<"de", "en", "es", "fr">>

CodePlace(code) == CHOOSE i \in 1..Len(AscendingCodes) : AscendingCodes[i] = code

\* build("p") has returned and the profile p exists; doc is then the assembled
\* document of p and langs the locale set discovered from it
BuildOfPCompleted == pc = "store" /\ op = <<"build", "p">> /\ fs["p"].exists

\* for every discovered locale the JSON file of the claim is in dist/
EveryLocaleHasItsJson ==
    \A c \in langs :
        \E f \in dist :
            /\ f.profile = "p" /\ f.language = c /\ f.ext = ".json"
            /\ IsResolutionOf(f.data, doc, c)
            /\ IsClaimedBaseName(f.filename, NameText(f.data))

\* the pairs of this build are the discovered locales, each once, ascending
PairsInAscendingOrder ==
    /\ {run.built[i][2] : i \in 1..Len(run.built)} = langs
    /\ \A i \in 1..Len(run.built) : run.built[i][1] = "p"
    /\ \A i, j \in 1..Len(run.built) :
          i < j => CodePlace(run.built[i][2]) < CodePlace(run.built[j][2])

\* once _generate_pdf has been entered for a pair its JSON file is there,
\* whatever the renderer does
JsonBeforeRenderer ==
    (pc = "render" \/ render.done) =>
        \E f \in dist :
            /\ f.profile = render.profile /\ f.language = render.language
            /\ f.filename = render.filename /\ f.ext = ".json"

\* C9 as claimed: after build(p) completes for an existing profile p, every
\* discovered locale c has dist/p/c/{LAST}-{FIRST}.json holding the document
\* resolved to c, no output directory exists for a locale outside that set, the
\* pairs are processed in ascending order of locale code, and the JSON file is
\* written whether or not the renderer succeeds.
C9_NoOtherOutputDirectory ==
    /\ JsonBeforeRenderer
    /\ BuildOfPCompleted =>
          /\ EveryLocaleHasItsJson
          /\ PairsInAscendingOrder
          /\ \A f \in dist : (f.profile = "p" /\ f.ext = "/") => f.language \in langs

\* C9 amended: the same, with "this build has made no output directory for a
\* locale outside that set" (a directory an earlier build made for a locale
\* the document no longer has stays under dist/p).
C9_BuildOutputs ==
    /\ JsonBeforeRenderer
    /\ BuildOfPCompleted =>
          /\ EveryLocaleHasItsJson
          /\ PairsInAscendingOrder
          /\ \A f \in dist \ run.dist0 :
                (f.profile = "p" /\ f.ext = "/") => f.language \in langs

\* a second build of p, after a split has changed its locale set, whose last
\* pair got no PDF: the new locales have their JSON, the old directories stay
C9_Witness ==
    /\ BuildOfPCompleted
    /\ Cardinality(langs) = 2
    /\ \E f \in run.dist0 : f.profile = "p" /\ f.ext = "/" /\ f.language \notin langs
    /\ \E f \in dist \ run.dist0 : f.profile = "p" /\ f.ext = "/" /\ f.language \in langs
    /\ render.done /\ ~render.pdf /\ Len(render.calls) = 2

\* the renderer has failed for the pair: its last invocation found no
\* executable, returned a non-zero status or timed out
RendererFailed ==
    /\ render.done
    /\ render.calls # <<>>
    /\ render.calls[Len(render.calls)].result \in {"missing", "nonzero", "timeout"}

\* C10: each kind of renderer failure (executable missing, non-zero exit,
\* timeout) ends the pair with the JSON output present, no PDF produced and a
\* warning logged; the build goes on with the remaining pairs and no renderer
\* failure aborts it.
C10_RendererFailureWarned ==
    /\ RendererFailed =>
          /\ \E f \in dist :
                /\ f.profile = render.profile /\ f.language = render.language
                /\ f.filename = render.filename /\ f.ext = ".json"
          /\ ~render.pdf
          /\ render.warning # ""
    /\ (RendererFailed /\ pc = "single") =>
          run.locales = <<>> \/ Head(run.locales) \notin {run.built[i][2] : i \in 1..Len(run.built)}
    /\ pc = "raised" => (render.calls = <<>> \/ render.done)

\* C11: during a build the renderer is invoked at most once for each (profile,
\* locale) pair, one invocation after another, and an invocation that failed
\* (non-zero exit, missing executable, timeout) is never followed by another
\* invocation for the same pair.
C11_OneInvocationPerPair ==
    /\ Len(render.calls) <= 1
    /\ \A i \in 1..Len(render.calls) :
          render.calls[i].result \in {"nonzero", "missing", "timeout"} =>
              i = Len(render.calls)

\* a precondition of the last split_section(profile, section) failed when it was
\* called: the section name is not fragmentable, the profile or its base document
\* does not exist, the section is absent from the base document or is no array
SplitPreconditionFailed ==
    LET profile == op[2]
        section == op[3]
        resume == before.fs[profile].resume
    IN  /\ pc = "store"
        /\ op[1] = "split_section"
        /\ before.op = op
        /\ \/ section \notin Range(FRAGMENTABLE_SECTIONS)
           \/ ~before.fs[profile].exists
           \/ resume.t = "-"
           \/ resume.t = "M" /\ section \notin Range(resume.ks)
           \/ resume.t = "M" /\ section \in Range(resume.ks) /\ FieldOf(resume, section).t # "L"

\* C12: whenever a precondition of splitSection fails (section not fragmentable,
\* profile or base document missing, section absent, section not an array) the
\* operation reports a diagnostic, returns without raising, and leaves the base
\* document and every fragment directory unchanged.
C12_SplitPreconditionFailure ==
    SplitPreconditionFailed =>
        /\ out.t # "X"
        /\ diag # ""
        /\ fs = before.fs

\* C13: build(p) for a profile directory that does not exist reports a diagnostic
\* and writes nothing; in build() over all profiles a profile directory without
\* base document (an empty directory included) raises no error and keeps no other
\* profile from getting its outputs.
C13_MissingInputsNeverFail ==
    /\ (pc = "store" /\ op[1] = "build" /\ op[2] # "" /\ ~fs[op[2]].exists) =>
          /\ out.t # "X"
          /\ diag = "Profile not found"
          /\ dist = run.dist0
    /\ (pc = "raised" /\ op = <<"build", "">>) => fs[run.profile].resume.t # "-"
    /\ (pc = "store" /\ op = <<"build", "">>) =>
          \A profile \in DOMAIN fs :
              fs[profile].exists =>
                  \E f \in dist : f.profile = profile /\ f.ext = ".json"

\* assembling the profile reads a JSON file that does not parse: resume.json,
\* basics.json or a .json file of a fragment directory
AssemblyReadsMalformed(profile) ==
    \/ fs[profile].resume.t = "?"
    \/ fs[profile].basics.t = "?"
    \/ \E section \in Range(FRAGMENTABLE_SECTIONS) :
          /\ fs[profile].dirs[section].exists
          /\ \E f \in fs[profile].dirs[section].files :
                /\ f.data.t = "?"
                /\ Len(f.name) >= 5
                /\ SubSeq(f.name, Len(f.name) - 4, Len(f.name)) = <<".", "j", "s", "o", "n">>

\* C14: when a JSON file read while assembling a profile does not parse, the
\* error propagates to the caller of build: no assembled document is returned
\* (none is resolved, no pair is begun), nothing is written for that profile,
\* no profile after it is built, and the build never goes on.
C14_MalformedPropagates ==
    /\ [](\A profile \in DOMAIN fs :
             (run.profile = profile /\ AssemblyReadsMalformed(profile)) =>
                 /\ pc = "raised"
                 /\ out.t = "X" /\ out.k = "JSONDecodeError"
                 /\ \A i \in 1..Len(run.built) : run.built[i][1] # profile
                 /\ \A f \in dist \ run.dist0 : f.profile # profile /\ f.profile \notin run.todo)
    /\ [][pc = "raised" => pc' = "raised" /\ dist' = dist]_vars

\* a build over all profiles stopped at a fragment that does not parse, with
\* another profile still to build
C14_Witness ==
    /\ pc = "raised"
    /\ op = <<"build", "">>
    /\ out.k = "JSONDecodeError"
    /\ run.profile = "p"
    /\ fs["p"].resume.t = "M" /\ fs["p"].dirs["work"].exists
    /\ AssemblyReadsMalformed("p")
    /\ run.todo = {"q"}
    /\ dist = {}

\* C15: mergeSection, mergeAll and build leave everything under profiles/ as it
\* was: as long as no split has been called profiles/ is what it was at the
\* start, and the only steps that change anything under profiles/ are those of
\* splitSection and splitAll; the steps of build write under dist/ only.
C15_OnlySplitWritesProfiles ==
    /\ [](before.op = <<"none">> => fs = before.fs)
    /\ [][fs' # fs => (pc = "store" /\ op'[1] \in {"split_section", "split_all_sections"})]_vars
    /\ [][op'[1] \in {"_merge_section", "_merge_all_sections", "build"} => fs' = fs]_vars

\* fragments merged after a build that wrote its outputs, no split so far
C15_Witness ==
    /\ pc = "store"
    /\ op = <<"_merge_section", "p", "work">>
    /\ out.t = "L"
    /\ run.builds >= 1
    /\ \E f \in dist : f.profile = "p" /\ f.ext = ".json"
    /\ before.op = <<"none">>
    /\ fs = before.fs

\* the base document of p when the last split was called, and now
BaseBefore == before.fs["p"].resume

BaseNow == fs["p"].resume

\* the fields split_all_sections takes out of the base document: a Mapping
\* "basics" and the fragmentable names whose value is an array
IsTakenOut(key) ==
    /\ key \in Range(BaseBefore.ks)
    /\ \/ key = "basics" /\ FieldOf(BaseBefore, key).t = "M"
       \/ key \in Range(FRAGMENTABLE_SECTIONS) /\ FieldOf(BaseBefore, key).t = "L"

\* the last split was split_all_sections(p) on a profile with a base document
AfterSplitAll ==
    /\ pc = "store"
    /\ before.op = <<"split_all_sections", "p">>
    /\ BaseBefore.t = "M"

\* what split_all_sections(p) has left on disk, as the claim has it
SplitAllEffect ==
    /\ BaseNow.t = "M"
    /\ \A key \in Range(BaseBefore.ks) :
          IF IsTakenOut(key)
          THEN /\ key \notin Range(BaseNow.ks)
               /\ key = "basics" => fs["p"].basics = FieldOf(BaseBefore, key)
               /\ key # "basics" =>
                     /\ fs["p"].dirs[key].exists
                     /\ \A i \in 1..Len(FieldOf(BaseBefore, key).c) :
                           \E f \in fs["p"].dirs[key].files :
                               /\ f.name = FragmentName(i - 1)
                               /\ f.data = FieldOf(BaseBefore, key).c[i]
          ELSE key \in Range(BaseNow.ks) /\ FieldOf(BaseNow, key) = FieldOf(BaseBefore, key)
    /\ Range(BaseNow.ks) \subseteq Range(BaseBefore.ks)

\* C16 as claimed: after splitAll a Mapping "basics" is in basics.json and out of
\* the base document, every fragmentable array section is in index-named
\* fragments and out of the base document, every other field is unchanged, and a
\* following mergeAll returns a document whose basics and whose non-fragmented
\* fields equal the original ones.
C16_SplitAllThenMergeAllAnyField ==
    AfterSplitAll =>
        /\ SplitAllEffect
        /\ op = <<"_merge_all_sections", "p">> =>
              /\ out.t = "M"
              /\ \A key \in Range(BaseBefore.ks) :
                    ((key = "basics" /\ IsTakenOut(key)) \/ ~IsTakenOut(key)) =>
                        /\ key \in Range(out.ks)
                        /\ FieldOf(out, key) = FieldOf(BaseBefore, key)

\* the field is overridden when the profile is assembled: basics by a basics.json,
\* a fragmentable name by the .json files of its directory
IsOverridden(key) ==
    \/ key = "basics" /\ fs["p"].basics.t # "-"
    \/ key \in Range(FRAGMENTABLE_SECTIONS) /\ JsonFiles(key) # {}

\* C16 amended: the same, where the following mergeAll returns a document unless
\* a file left in place does not parse, and the fields that equal the original
\* ones are the Mapping basics and every field left in the base document that
\* no basics.json and no fragment of an earlier split overrides.
C16_SplitAllThenMergeAll ==
    AfterSplitAll =>
        /\ SplitAllEffect
        /\ op = <<"_merge_all_sections", "p">> =>
              /\ out.t # "M" => (out.t = "X" /\ out.k = "JSONDecodeError"
                                 /\ AssemblyReadsMalformed("p"))
              /\ out.t = "M" =>
                    \A key \in Range(BaseBefore.ks) :
                        ((key = "basics" /\ IsTakenOut(key))
                            \/ (~IsTakenOut(key) /\ ~IsOverridden(key))) =>
                                /\ key \in Range(out.ks)
                                /\ FieldOf(out, key) = FieldOf(BaseBefore, key)

\* basics and two sections taken out, "meta" left, and the profile merged again
C16_Witness ==
    /\ AfterSplitAll
    /\ op = <<"_merge_all_sections", "p">>
    /\ out.t = "M"
    /\ IsTakenOut("basics") /\ IsTakenOut("work") /\ IsTakenOut("skills")
    /\ Len(FieldOf(BaseBefore, "work").c) >= 2
    /\ FieldOf(out, "basics") = FieldOf(BaseBefore, "basics")
    /\ FieldOf(out, "meta") = FieldOf(BaseBefore, "meta")

\* the fragment directory of "work" did not exist when the last split of it was
\* called, and the base document then held "work" as an array
SplitOfFreshSection ==
    /\ before.op = <<"split_section", "p", "work">>
    /\ ~before.fs["p"].dirs["work"].exists
    /\ before.fs["p"].resume.t = "M"
    /\ "work" \in Range(before.fs["p"].resume.ks)
    /\ FieldOf(before.fs["p"].resume, "work").t = "L"

\* the directory holds k fragments with 0 < k < N while the base document still
\* holds the whole section
PartlySplit ==
    /\ SplitOfFreshSection
    /\ fs["p"].resume = before.fs["p"].resume
    /\ Cardinality(JsonFiles("work")) > 0
    /\ Cardinality(JsonFiles("work")) < Len(ElementsBefore)

\* the last step was a mergeAll of p that returned a document
Merged == op = <<"_merge_all_sections", "p">> /\ out.t = "M"

\* C17: splitSection writes the N fragments one by one and rewrites the base
\* document only after the last one; in a state between, left by a failure or
\* seen by a mergeAll running beside the split, the directory holds k fragments,
\* 0 < k < N, the base document the whole section, and mergeAll returns only
\* those k elements; before the split and after it mergeAll returns all N.
C17_SplitIsNotAtomic ==
    /\ (SplitOfFreshSection /\ split.phase \in {"writing", "failed"}) =>
          /\ fs["p"].resume = before.fs["p"].resume
          /\ Cardinality(JsonFiles("work")) = split.next
          /\ \A f \in JsonFiles("work") :
                \E i \in 1..split.next :
                    f.name = FragmentName(i - 1) /\ f.data = ElementsBefore[i]
    /\ (PartlySplit /\ Merged) =>
          /\ split.phase \in {"writing", "failed"}
          /\ IsInNameOrder(FieldOf(out, "work"),
                           SubSeq(ElementsBefore, 1, Cardinality(JsonFiles("work"))))
    /\ (SplitOfFreshSection /\ split.phase = "done" /\ Merged /\ Len(ElementsBefore) >= 1) =>
          IsInNameOrder(FieldOf(out, "work"), ElementsBefore)
    /\ (before.op = <<"none">> /\ ~fs["p"].dirs["work"].exists /\ Merged) =>
          FieldOf(out, "work") = FieldOf(fs["p"].resume, "work")

\* a mergeAll between the fourth and the fifth write of a split of eleven
\* elements returns four of them
C17_Witness ==
    /\ PartlySplit
    /\ Merged
    /\ split.phase = "writing"
    /\ Len(ElementsBefore) = 11
    /\ Len(FieldOf(out, "work").c) = 4

\* a split of three elements has failed after its second write
C17_WitnessFailure ==
    /\ PartlySplit
    /\ Merged
    /\ split.phase = "failed"
    /\ Len(ElementsBefore) = 3
    /\ Len(FieldOf(out, "work").c) = 2

\* the last call is _merge_section(p, work) and the last split was a successful
\* split_section(p, work), whatever profiles/p/work held before it
SplitThenMergeAnyDirectory ==
    /\ pc = "store"
    /\ op = <<"_merge_section", "p", "work">>
    /\ before.op = <<"split_section", "p", "work">>
    /\ before.fs["p"].resume.t = "M"
    /\ "work" \in Range(before.fs["p"].resume.ks)
    /\ FieldOf(before.fs["p"].resume, "work").t = "L"

\* C18: after a successful splitSection of a section with N elements,
\* mergeSection returns exactly those N elements and nothing else, whatever the
\* fragment directory held before the split (such as 0.json .. M-1.json, M > N).
C18_MergeReturnsOnlyTheSection ==
    SplitThenMergeAnyDirectory =>
        IF Len(ElementsBefore) >= 1
        THEN IsInNameOrder(out, ElementsBefore)
        ELSE out.t = "N" \/ (out.t = "L" /\ out.c = <<>>)

\* C19: resolution is total: for every document, target locale and locale set
\* _resolve_translations returns a value and never fails, also on a tree that
\* holds a Mapping without keys.
C19_ResolutionIsTotal ==
    Resolved => (out.t # "X" /\ out.t # "N")

====
